---- MODULE Spec2Model ----
(***************************************************************************)
(* USEOAI.  The performance analyzer (services/seo_analyzer.py as          *)
(* documented in DYNAMIC_PERFORMANCE_ANALYSIS.md and PROJECT_SUMMARY.md):  *)
(* the orchestrator _analyze_performance, the dynamic (browser) path, the  *)
(* static (HTML) path, the request classifier and the browser pool, with   *)
(* several analysis calls sharing the pool.  The LLM provider manager of   *)
(* the LLM Configuration Guide.  The frontend: the GeoMap and StaticMap    *)
(* components and the forms of the Analyze and GeoAnalysis views.          *)
(* Each part has its own variables and its own specification; while one    *)
(* part runs the others rest in their parked state.                        *)
(***************************************************************************)
EXTENDS Integers, Sequences, FiniteSets, TLC

(* ---------------------------------------------------------------------- *)
(* Bounds and program constants                                            *)
(* ---------------------------------------------------------------------- *)

\* number of performance analyses followed step by step; the other work that
\* shares the browser pool is followed by the pages it borrows only
NumCalls == 2

\* BROWSER_POOL_SIZE: int = 3
BROWSER_POOL_SIZE == 3

Calls == 1..NumCalls

\* the pages of the browser pool
Handles == 1..BROWSER_POOL_SIZE

(* ---------------------------------------------------------------------- *)
(* The world the analyzer looks at: URLs and the pages behind them         *)
(* ---------------------------------------------------------------------- *)

Req(declared, hint) == [declared |-> declared, hint |-> hint]

\* a reference found in static markup has no browser-declared kind
Ref(hint) == Req("none", hint)

ShopUrl == [scheme |-> "https", host |-> "shop.example"]

PlainUrl == [scheme |-> "http", host |-> "plain.example"]

FileUrl == [scheme |-> "file", host |-> ""]

LoopbackUrl == [scheme |-> "http", host |-> "127.0.0.1"]

Urls == {ShopUrl, PlainUrl, FileUrl, LoopbackUrl}

\* markup of the page, tag by tag
Html(u) ==
  IF u = ShopUrl
  THEN << "script_src", "script_inline", "script_src", "link_stylesheet",
          "link_icon", "img", "img", "img_lazy", "a" >>
  ELSE << "a", "script_inline" >>

\* requests the browser issues while it loads the page, in order; the first
\* one is the top-level navigation
Requests(u) ==
  IF u = ShopUrl
  THEN << Req("document", "html"), Req("script", "js"), Req("script", "js"),
          Req("stylesheet", "css"), Req("image", "png"), Req("image", "png"),
          Req("image", "png"), Req("font", "woff2"), Req("fetch", "json"),
          Req("xhr", "js"), Req("websocket", "") >>
  ELSE << Req("document", "html"), Req("document", "html"), Req("other", "ico") >>

\* content-encoding of the main document response
ContentEncoding(u) == IF u = ShopUrl THEN "gzip" ELSE "identity"

\* first-byte latency of the main document response, in ms
FirstByteMs(u) == IF u = ShopUrl THEN 245 ELSE 30

\* does the rendered DOM carry lazy-loading markers
DomHasLazyMarkers(u) == u = ShopUrl

(* ---------------------------------------------------------------------- *)
(* URL validation                                                          *)
(* ---------------------------------------------------------------------- *)

DisallowedHosts == {"127.0.0.1", "localhost"}

\* variant: the scheme is not checked
validate_url_HostOnly(u) == u.host \notin DisallowedHosts

validate_url(u) == u.scheme \in {"http", "https"} /\ u.host \notin DisallowedHosts

(* ---------------------------------------------------------------------- *)
(* Request classifier                                                      *)
(* ---------------------------------------------------------------------- *)

ResourceTypes == {"script", "image", "stylesheet", "font", "fetch/xhr", "other"}

NavigationType == "navigation/document"

\* variant: the document kind is not told apart from the unknown kinds
ByDeclaredKind_NoNavigation(kind) ==
  CASE kind = "script"     -> "script"
    [] kind = "image"      -> "image"
    [] kind = "stylesheet" -> "stylesheet"
    [] kind = "font"       -> "font"
    [] kind \in {"fetch", "xhr"} -> "fetch/xhr"
    [] OTHER               -> "other"

\* classification by the kind the browser reports
ByDeclaredKind(kind) ==
  CASE kind = "document"   -> NavigationType
    [] kind = "script"     -> "script"
    [] kind = "image"      -> "image"
    [] kind = "stylesheet" -> "stylesheet"
    [] kind = "font"       -> "font"
    [] kind \in {"fetch", "xhr"} -> "fetch/xhr"
    [] OTHER               -> "other"

\* variant: a hint that matches nothing yields no type at all
ByHeuristic_NoDefault(hint) ==
  CASE hint \in {"script_src", "js"}                -> "script"
    [] hint \in {"img", "img_lazy", "png"}          -> "image"
    [] hint \in {"link_stylesheet", "css"}          -> "stylesheet"
    [] hint \in {"link_font", "style_font", "woff2"} -> "font"
    [] OTHER                                        -> ""

\* classification by tag type / file extension
ByHeuristic(hint) ==
  CASE hint \in {"script_src", "js"}                -> "script"
    [] hint \in {"img", "img_lazy", "png"}          -> "image"
    [] hint \in {"link_stylesheet", "css"}          -> "stylesheet"
    [] hint \in {"link_font", "style_font", "woff2"} -> "font"
    [] OTHER                                        -> "other"

classify(r) ==
  IF r.declared # "none" THEN ByDeclaredKind(r.declared) ELSE ByHeuristic(r.hint)

(* ---------------------------------------------------------------------- *)
(* Profiles                                                                *)
(* ---------------------------------------------------------------------- *)

ProfileFields ==
  {"ttfb_ms", "resource_count", "gzip_enabled", "lazy_loaded_images",
   "resource_types", "scripts_count", "images_count", "stylesheets_count",
   "fonts_count", "fetch_requests_count", "total_requests"}

\* "not measured" value of ttfb_ms
TTFB_SENTINEL == 0

\* number of the entries idx of seq that classify as t
CountOf(seq, idx, t) == Cardinality({i \in idx : classify(seq[i]) = t})

\* variant: only the original four fields are filled in
MakeProfile_Legacy(ttfb, gzip, lazy, types, resources, total) ==
  [ttfb_ms |-> ttfb,
   resource_count |-> resources,
   gzip_enabled |-> gzip,
   lazy_loaded_images |-> lazy]

MakeProfile(ttfb, gzip, lazy, types, resources, total) ==
  [ttfb_ms |-> ttfb,
   resource_count |-> resources,
   gzip_enabled |-> gzip,
   lazy_loaded_images |-> lazy,
   resource_types |-> types,
   scripts_count |-> types["script"],
   images_count |-> types["image"],
   stylesheets_count |-> types["stylesheet"],
   fonts_count |-> types["font"],
   fetch_requests_count |-> types["fetch/xhr"],
   total_requests |-> total]

get_default_performance_metrics ==
  MakeProfile(TTFB_SENTINEL, FALSE, FALSE, [t \in ResourceTypes |-> 0], 0, 0)

\* variant: the navigation/document request is counted as a resource
process_dynamic_requests_CountAll(reqs, seen) ==
  [types |-> [t \in ResourceTypes |-> CountOf(reqs, seen, t)],
   resources |-> Cardinality(seen),
   total |-> Cardinality(seen)]

\* the requests seen by the observer, by type; the navigation/document request
\* is counted in total_requests only
process_dynamic_requests(reqs, seen) ==
  [types |-> [t \in ResourceTypes |-> CountOf(reqs, seen, t)],
   resources |-> Cardinality({i \in seen : classify(reqs[i]) # NavigationType}),
   total |-> Cardinality(seen)]

\* profile the dynamic path builds for u from the requests its observer saw
DynamicProfile(u, seen) ==
  LET p == process_dynamic_requests(Requests(u), seen)
  IN  MakeProfile(FirstByteMs(u), ContentEncoding(u) = "gzip",
                  DomHasLazyMarkers(u), p.types, p.resources, p.total)

\* tags of static markup that reference an external resource
ExtractedTags == {"script_src", "link_stylesheet", "link_font", "img",
                  "img_lazy", "style_font"}

\* variant: inline scripts are taken for background fetch calls
analyze_performance_static_GuessFetch(u) ==
  LET html == Html(u)
      refs == [i \in DOMAIN html |-> Ref(html[i])]
      idx  == {i \in DOMAIN html : html[i] \in ExtractedTags}
      inl  == {i \in DOMAIN html : html[i] = "script_inline"}
      types == [t \in ResourceTypes |->
                  IF t = "fetch/xhr" THEN Cardinality(inl) ELSE CountOf(refs, idx, t)]
  IN  MakeProfile(FirstByteMs(u), ContentEncoding(u) = "gzip",
                  \E i \in DOMAIN html : html[i] = "img_lazy",
                  types, Cardinality(idx) + Cardinality(inl),
                  Cardinality(idx) + Cardinality(inl))

\* profile the static path builds for u from the fetched markup
analyze_performance_static(u) ==
  LET html == Html(u)
      refs == [i \in DOMAIN html |-> Ref(html[i])]
      idx  == {i \in DOMAIN html : html[i] \in ExtractedTags}
      types == [t \in ResourceTypes |->
                  IF t = "fetch/xhr" THEN 0 ELSE CountOf(refs, idx, t)]
  IN  MakeProfile(FirstByteMs(u), ContentEncoding(u) = "gzip",
                  \E i \in DOMAIN html : html[i] = "img_lazy",
                  types, Cardinality(idx), Cardinality(idx))

NoProfile == [none |-> TRUE]

(* ---------------------------------------------------------------------- *)
(* State                                                                   *)
(* ---------------------------------------------------------------------- *)

VARIABLES
  pc,          \* pc[c]: where call c stands
  url,         \* url[c]: the URL call c analyses
  poolIdle,    \* pages idle in the browser pool
  page,        \* page[c]: pages call c has borrowed and not yet given back
  otherPages,  \* pages borrowed by the other analyses that share the pool
  observer,    \* observer[c]: the request observer is installed on c's page
  navStarted,  \* navStarted[c]: navigation of c's page has begun
  captured,    \* captured[c]: indices of the page's requests the observer saw
  failedAt,    \* failedAt[c]: step at which the dynamic path raised, or "none"
  dynProfile,  \* dynProfile[c]: value the dynamic path returns
  outcome,     \* outcome[c]: how the call ended
  result,      \* result[c]: profile handed to the caller
  acquires,    \* acquires[c]: pages c took from the pool
  releases,    \* releases[c]: pages c gave back to the pool
  staticRuns,  \* staticRuns[c]: times the static path was invoked for c
  staticFailed \* staticFailed[c]: the static path raised

vars == << pc, url, poolIdle, page, otherPages, observer, navStarted, captured, failedAt,
           dynProfile, outcome, result, acquires, releases, staticRuns,
           staticFailed >>

\* state of the request classifier called on its own
VARIABLES
  clsInput,   \* the request or reference handed to classify
  clsOutput,  \* what the latest call returned
  clsFirst,   \* what the first call on this input returned
  clsCalls    \* calls made on this input

clsVars == << clsInput, clsOutput, clsFirst, clsCalls >>

\* state of the LLM provider manager during one analysis
VARIABLES
  llmEnabled,    \* providers switched on by LLM_ENABLE_<NAME>
  llmKeys,       \* providers whose API key is set
  llmOrder,      \* LLM_PRIORITY_ORDER
  llmFallback,   \* LLM_ENABLE_FALLBACK
  llmPreferred,  \* llm_provider of the request, "none" when it is left out
  llmPc,         \* "idle", "calling" or "done"
  llmQueue,      \* providers still to try, the current one first
  llmTried,      \* providers called so far, in the order of their first call
  llmCalls,      \* calls made to each provider
  llmErrors,     \* calls to each provider answered with an API error
  llmTimedOut,   \* providers whose call ran into LLM_TIMEOUT
  llmResult      \* "pending", a provider's name, or "error"

llmVars == << llmEnabled, llmKeys, llmOrder, llmFallback, llmPreferred, llmPc,
              llmQueue, llmTried, llmCalls, llmErrors, llmTimedOut, llmResult >>

\* state of the marker colouring of the two map components
VARIABLES
  mcRanking,  \* the average ranking handed to getMarkerColor
  mcGeo,      \* colour returned by GeoMap's getMarkerColor, "unset" before the call
  mcStatic    \* colour returned by StaticMap's getMarkerColor

mcVars == << mcRanking, mcGeo, mcStatic >>

\* state of the GeoMap component
VARIABLES
  gmResults,   \* the geoResults prop
  gmSelected,  \* selectedKeyword, "" for all keywords
  gmMap,       \* TRUE once initMap has created map and markerLayer
  gmMarkers,   \* location ids of the markers on markerLayer, in drawing order
  gmDrawn      \* location ids that have had a marker at some time

gmVars == << gmResults, gmSelected, gmMap, gmMarkers, gmDrawn >>

\* state of the StaticMap component
VARIABLES
  smKeywords,    \* distinct keywords of geoResults.keyword_rankings
  smMounted,     \* TRUE once onMounted has run
  smMaps,        \* generatedMaps: the keywords of its entries, in list order
  smGenerating,  \* isGenerating
  smPhase,       \* generateAllMaps: "idle", "capturing", "pausing", or "done"
                 \* in the state it has just completed in
  smTodo,        \* keywords generateAllMaps still has to go through
  smSingle,      \* keywords whose generateStaticMap was started by a button
  smRunOk,       \* no capture of the current generateAllMaps run has failed
  smRunClean     \* no removeMap and no new geoResults since the run started

smVars == << smKeywords, smMounted, smMaps, smGenerating, smPhase, smTodo,
             smSingle, smRunOk, smRunClean >>

\* state of the Analyze view
VARIABLES
  azIncludeLocal,  \* the "include local analysis" checkbox
  azForm,          \* formData
  azOutcome,       \* last submit of the form as it stands: "none", "rejected", "sent"
  azRequest        \* analysisData of that submit

azVars == << azIncludeLocal, azForm, azOutcome, azRequest >>

\* state of the GeoAnalysis view
VARIABLES
  gaForm,     \* formData
  gaErrors,   \* keys of the reactive errors object
  gaOutcome,  \* last submit of the form as it stands: "none", "rejected", "sent"
  gaCalls,    \* calls of analysisStore.startGeoAnalysis made by that submit
  gaRequest   \* geoData of that submit

gaVars == << gaForm, gaErrors, gaOutcome, gaCalls, gaRequest >>

\* state of the analysis store (stores/analysis.js)
VARIABLES
  stOp,               \* the store action each call runs, "none" before it starts
  stPc,               \* each call: "idle", "inflight", "returned" or "thrown"
  isLoading,
  error,              \* "null" or a message
  currentAnalysis,    \* "null" or the id of the response data
  analysisHistory     \* ids of the completed analyses, newest first

stVars == << stOp, stPc, isLoading, error, currentAnalysis, analysisHistory >>

\* state of the grouped reports view
VARIABLES
  expandedGroup,  \* URL of the expanded group, "null" when none is
  groupReports,   \* the list shown: the page of a group's reports, or NoReports
  groupPage,
  groupTotal,
  grFetches,      \* fetchReportsByUrl calls in flight: [url, page]
  byUrlLoading    \* the store's flag, shown instead of the table and its buttons

grVars == << expandedGroup, groupReports, groupPage, groupTotal, grFetches,
             byUrlLoading >>

\* state of the progress display of the Analyze view
VARIABLES
  progress,    \* percentage shown
  prTimers,    \* live setInterval timers
  prSubmits,   \* submits made so far
  prCall       \* the store call of the last submit: "none", "inflight",
               \* "succeeded" or "failed"

prVars == << progress, prTimers, prSubmits, prCall >>

\* state of the MyReports view and of the reports store behind it
VARIABLES
  mrLoaded,         \* TRUE once fetchReports has answered
  mrReports,        \* ids of reportsStore.reports
  selectedType,     \* the type filter, "" for every type
  currentPage,
  showDeleteModal,
  reportToDelete,   \* {} for null, else the id the dialog was opened for
  mrDeleting,       \* ids with a reportsStore.deleteReport call in flight
  mrLastDelete      \* how the latest settled delete call ended: "none", "ok", "failed"

mrVars == << mrLoaded, mrReports, selectedType, currentPage, showDeleteModal,
             reportToDelete, mrDeleting, mrLastDelete >>

\* what the steps of one part leave alone: the state of the other parts
notPerfVars == << clsVars, llmVars, mcVars, gmVars, smVars, azVars, gaVars, stVars, grVars, prVars, mrVars >>

notClsVars == << vars, llmVars, mcVars, gmVars, smVars, azVars, gaVars, stVars, grVars, prVars, mrVars >>

notLlmVars == << vars, clsVars, mcVars, gmVars, smVars, azVars, gaVars, stVars, grVars, prVars, mrVars >>

notMcVars == << vars, clsVars, llmVars, gmVars, smVars, azVars, gaVars, stVars, grVars, prVars, mrVars >>

notGmVars == << vars, clsVars, llmVars, mcVars, smVars, azVars, gaVars, stVars, grVars, prVars, mrVars >>

notSmVars == << vars, clsVars, llmVars, mcVars, gmVars, azVars, gaVars, stVars, grVars, prVars, mrVars >>

notAzVars == << vars, clsVars, llmVars, mcVars, gmVars, smVars, gaVars, stVars, grVars, prVars, mrVars >>

notGaVars == << vars, clsVars, llmVars, mcVars, gmVars, smVars, azVars, stVars, grVars, prVars, mrVars >>

notStVars == << vars, clsVars, llmVars, mcVars, gmVars, smVars, azVars, gaVars, grVars, prVars, mrVars >>

notGrVars == << vars, clsVars, llmVars, mcVars, gmVars, smVars, azVars, gaVars, stVars, prVars, mrVars >>

notPrVars == << vars, clsVars, llmVars, mcVars, gmVars, smVars, azVars, gaVars, stVars, grVars, mrVars >>

notMrVars == << vars, clsVars, llmVars, mcVars, gmVars, smVars, azVars, gaVars, stVars, grVars, prVars >>

Steps == {"idle", "acquire", "observe", "navigate", "loading", "evaluate",
          "release", "static", "done"}

Outcomes == {"pending", "profile", "validation_error", "raised"}

FailPoints == {"none", "acquire", "observe", "navigate", "evaluate"}

NoUrl == [scheme |-> "", host |-> ""]

Init ==
  /\ pc = [c \in Calls |-> "idle"]
  /\ url = [c \in Calls |-> NoUrl]
  /\ poolIdle = Handles
  /\ page = [c \in Calls |-> {}]
  /\ otherPages = {}
  /\ observer = [c \in Calls |-> FALSE]
  /\ navStarted = [c \in Calls |-> FALSE]
  /\ captured = [c \in Calls |-> {}]
  /\ failedAt = [c \in Calls |-> "none"]
  /\ dynProfile = [c \in Calls |-> NoProfile]
  /\ outcome = [c \in Calls |-> "pending"]
  /\ result = [c \in Calls |-> NoProfile]
  /\ acquires = [c \in Calls |-> 0]
  /\ releases = [c \in Calls |-> 0]
  /\ staticRuns = [c \in Calls |-> 0]
  /\ staticFailed = [c \in Calls |-> FALSE]

(* ---------------------------------------------------------------------- *)
(* Orchestrator: _analyze_performance                                      *)
(* ---------------------------------------------------------------------- *)

\* variant: the static path is invoked whether or not the dynamic path raised
OnDynamicExit_Always(f) == "static"

\* try: return await dynamic(url)  /  except Exception: return await static(url)
\* f is the step at which the dynamic path raised, "none" when it returned
OnDynamicExit(f) == IF f = "none" THEN "done" ELSE "static"

\* variant: the except branch hands back the default metrics
FallbackResult_Default(u) == get_default_performance_metrics

\* what the except branch hands back when the static path returns
FallbackResult(u) == analyze_performance_static(u)

\* the dynamic path of call c has ended (f as above): the orchestrator either
\* returns its profile or invokes the static path
AfterDynamic(c, f) ==
  LET next == OnDynamicExit(f)
  IN  /\ pc' = [pc EXCEPT ![c] = next]
      /\ staticRuns' = [staticRuns EXCEPT ![c] = IF next = "static" THEN @ + 1 ELSE @]
      /\ outcome' = [outcome EXCEPT ![c] = IF next = "done" THEN "profile" ELSE @]
      /\ result' = [result EXCEPT ![c] = IF next = "done" THEN dynProfile[c] ELSE @]

\* a caller submits u; calls are numbered in the order they arrive
analyzePerformance(c, u) ==
  /\ pc[c] = "idle"
  /\ \A b \in Calls : b < c => pc[b] # "idle"
  /\ url' = [url EXCEPT ![c] = u]
  /\ IF validate_url(u)
     THEN /\ pc' = [pc EXCEPT ![c] = "acquire"]
          /\ UNCHANGED outcome
     ELSE /\ pc' = [pc EXCEPT ![c] = "done"]
          /\ outcome' = [outcome EXCEPT ![c] = "validation_error"]
  /\ UNCHANGED << notPerfVars, otherPages, poolIdle, page, observer, navStarted, captured, failedAt,
                  dynProfile, result, acquires, releases, staticRuns,
                  staticFailed >>

(* ---------------------------------------------------------------------- *)
(* Browser pool                                                            *)
(* ---------------------------------------------------------------------- *)

\* the pages are interchangeable; the pool hands out the lowest idle one
NextIdle(idle) == CHOOSE h \in idle : \A k \in idle : h <= k

\* variant: the page handed out stays in the idle set
PoolAfterAcquire_Keep(idle) == idle

PoolAfterAcquire(idle) == idle \ {NextIdle(idle)}

PoolAfterRelease(idle, pages) == idle \cup pages

\* another analysis that shares the pool borrows a page
OtherAcquire ==
  /\ poolIdle # {}
  /\ otherPages' = otherPages \cup {NextIdle(poolIdle)}
  /\ poolIdle' = PoolAfterAcquire(poolIdle)
  /\ UNCHANGED << notPerfVars, pc, url, page, observer, navStarted, captured, failedAt,
                  dynProfile, outcome, result, acquires, releases, staticRuns,
                  staticFailed >>

\* and gives it back
OtherRelease(h) ==
  /\ h \in otherPages
  /\ otherPages' = otherPages \ {h}
  /\ poolIdle' = PoolAfterRelease(poolIdle, {h})
  /\ UNCHANGED << notPerfVars, pc, url, page, observer, navStarted, captured, failedAt,
                  dynProfile, outcome, result, acquires, releases, staticRuns,
                  staticFailed >>

(* ---------------------------------------------------------------------- *)
(* Dynamic path: _analyze_performance_dynamic                              *)
(* ---------------------------------------------------------------------- *)

\* variant: navigation is started before the observer is installed
StepAfter_NavigateFirst(s) ==
  CASE s = "acquire"  -> "navigate"
    [] s = "navigate" -> "observe"
    [] s = "observe"  -> "loading"
    [] s = "loading"  -> "evaluate"
    [] s = "evaluate" -> "release"

\* order of the steps of the dynamic path
StepAfter(s) ==
  CASE s = "acquire"  -> "observe"
    [] s = "observe"  -> "navigate"
    [] s = "navigate" -> "loading"
    [] s = "loading"  -> "evaluate"
    [] s = "evaluate" -> "release"

\* variant: the page is given back on the normal exit only
ReleasedOnExit_SuccessOnly(held, f) == IF f = "none" THEN held ELSE {}

\* pages call c gives back when it leaves the scope of its acquisition
ReleasedOnExit(held, f) == held

Acquire(c) ==
  /\ pc[c] = "acquire"
  /\ poolIdle # {}
  /\ page' = [page EXCEPT ![c] = @ \cup {NextIdle(poolIdle)}]
  /\ poolIdle' = PoolAfterAcquire(poolIdle)
  /\ acquires' = [acquires EXCEPT ![c] = @ + 1]
  /\ pc' = [pc EXCEPT ![c] = StepAfter("acquire")]
  /\ UNCHANGED << notPerfVars, otherPages, url, observer, navStarted, captured, failedAt, dynProfile,
                  outcome, result, releases, staticRuns, staticFailed >>

\* pool exhausted or browser unavailable: nothing was borrowed
AcquireFail(c) ==
  /\ pc[c] = "acquire"
  /\ failedAt' = [failedAt EXCEPT ![c] = "acquire"]
  /\ AfterDynamic(c, "acquire")
  /\ UNCHANGED << notPerfVars, otherPages, url, poolIdle, page, observer, navStarted, captured,
                  dynProfile, acquires, releases, staticFailed >>

InstallObserver(c) ==
  /\ pc[c] = "observe"
  /\ observer' = [observer EXCEPT ![c] = TRUE]
  /\ pc' = [pc EXCEPT ![c] = StepAfter("observe")]
  /\ UNCHANGED << notPerfVars, otherPages, url, poolIdle, page, navStarted, captured, failedAt,
                  dynProfile, outcome, result, acquires, releases, staticRuns,
                  staticFailed >>

\* the dynamic path raises at step `at` while it holds its page
RaiseInDynamic(c, at) ==
  /\ pc[c] = at
  /\ failedAt' = [failedAt EXCEPT ![c] = IF at = "loading" THEN "navigate" ELSE at]
  /\ pc' = [pc EXCEPT ![c] = "release"]
  /\ UNCHANGED << notPerfVars, otherPages, url, poolIdle, page, observer, navStarted, captured,
                  dynProfile, outcome, result, acquires, releases, staticRuns,
                  staticFailed >>

ObserveFail(c) == RaiseInDynamic(c, "observe")

\* navigation begins: the browser issues the top-level document request
NavigateStart(c) ==
  /\ pc[c] = "navigate"
  /\ navStarted' = [navStarted EXCEPT ![c] = TRUE]
  /\ captured' = [captured EXCEPT ![c] = IF observer[c] THEN @ \cup {1} ELSE @]
  /\ pc' = [pc EXCEPT ![c] = StepAfter("navigate")]
  /\ UNCHANGED << notPerfVars, otherPages, url, poolIdle, page, observer, failedAt, dynProfile, outcome,
                  result, acquires, releases, staticRuns, staticFailed >>

\* the page loads and settles: the remaining requests are issued
NavigateSettle(c) ==
  /\ pc[c] = "loading"
  /\ captured' = [captured EXCEPT ![c] =
                    IF observer[c] THEN @ \cup (2..Len(Requests(url[c]))) ELSE @]
  /\ pc' = [pc EXCEPT ![c] = StepAfter("loading")]
  /\ UNCHANGED << notPerfVars, otherPages, url, poolIdle, page, observer, navStarted, failedAt,
                  dynProfile, outcome, result, acquires, releases, staticRuns,
                  staticFailed >>

\* BROWSER_TIMEOUT expires, or navigation fails (DNS, TLS)
NavigateFail(c) == RaiseInDynamic(c, "loading")

\* DOM evaluation, then the captured requests are processed into the profile
Evaluate(c) ==
  /\ pc[c] = "evaluate"
  /\ dynProfile' = [dynProfile EXCEPT ![c] = DynamicProfile(url[c], captured[c])]
  /\ pc' = [pc EXCEPT ![c] = StepAfter("evaluate")]
  /\ UNCHANGED << notPerfVars, otherPages, url, poolIdle, page, observer, navStarted, captured, failedAt,
                  outcome, result, acquires, releases, staticRuns, staticFailed >>

EvaluateFail(c) == RaiseInDynamic(c, "evaluate")

\* leaving the scope of the acquisition, normally or by an exception
Release(c) ==
  /\ pc[c] = "release"
  /\ LET back == ReleasedOnExit(page[c], failedAt[c])
     IN  /\ poolIdle' = PoolAfterRelease(poolIdle, back)
         /\ page' = [page EXCEPT ![c] = @ \ back]
         /\ releases' = [releases EXCEPT ![c] = @ + Cardinality(back)]
  /\ AfterDynamic(c, failedAt[c])
  /\ UNCHANGED << notPerfVars, otherPages, url, observer, navStarted, captured, failedAt, dynProfile,
                  acquires, staticFailed >>

(* ---------------------------------------------------------------------- *)
(* Static path: _analyze_performance_static                                *)
(* ---------------------------------------------------------------------- *)

\* the HTTP GET answers and the markup is parsed
StaticReturn(c) ==
  /\ pc[c] = "static"
  /\ result' = [result EXCEPT ![c] = FallbackResult(url[c])]
  /\ outcome' = [outcome EXCEPT ![c] = "profile"]
  /\ pc' = [pc EXCEPT ![c] = "done"]
  /\ UNCHANGED << notPerfVars, otherPages, url, poolIdle, page, observer, navStarted, captured, failedAt,
                  dynProfile, acquires, releases, staticRuns, staticFailed >>

\* connection error, HTTP timeout, non-HTML content or parse error: the
\* exception leaves the except branch of the orchestrator
StaticFail(c) ==
  /\ pc[c] = "static"
  /\ staticFailed' = [staticFailed EXCEPT ![c] = TRUE]
  /\ outcome' = [outcome EXCEPT ![c] = "raised"]
  /\ pc' = [pc EXCEPT ![c] = "done"]
  /\ UNCHANGED << notPerfVars, otherPages, url, poolIdle, page, observer, navStarted, captured, failedAt,
                  dynProfile, result, acquires, releases, staticRuns >>

(* ---------------------------------------------------------------------- *)
(* Specification                                                           *)
(* ---------------------------------------------------------------------- *)

CallStep(c) ==
  \/ \E u \in Urls : analyzePerformance(c, u)
  \/ Acquire(c)
  \/ AcquireFail(c)
  \/ InstallObserver(c)
  \/ ObserveFail(c)
  \/ NavigateStart(c)
  \/ NavigateSettle(c)
  \/ NavigateFail(c)
  \/ Evaluate(c)
  \/ EvaluateFail(c)
  \/ Release(c)
  \/ StaticReturn(c)
  \/ StaticFail(c)

Next ==
  \/ \E c \in Calls : CallStep(c)
  \/ OtherAcquire
  \/ \E h \in Handles : OtherRelease(h)

TypeOK ==
  /\ pc \in [Calls -> Steps]
  /\ url \in [Calls -> Urls \cup {NoUrl}]
  /\ poolIdle \subseteq Handles
  /\ page \in [Calls -> SUBSET Handles]
  /\ otherPages \subseteq Handles
  /\ failedAt \in [Calls -> FailPoints]
  /\ outcome \in [Calls -> Outcomes]

(* ---------------------------------------------------------------------- *)
(* Request classifier, called on its own                                   *)
(* ---------------------------------------------------------------------- *)

\* times classify is applied to one input
MaxRepeat == 2

DeclaredKinds == {"none", "document", "script", "image", "stylesheet", "font",
                  "fetch", "xhr", "media", "websocket", "manifest", ""}

Hints == {"script_src", "script_inline", "js", "img", "img_lazy", "png",
          "link_stylesheet", "css", "link_font", "style_font", "woff2",
          "html", ""}

ClassifierInputs == {Req(k, h) : k \in DeclaredKinds, h \in Hints}

ClsParked ==
  /\ clsInput = Req("none", "")
  /\ clsOutput = "unset"
  /\ clsFirst = "unset"
  /\ clsCalls = 0

ClsInit ==
  /\ clsInput \in ClassifierInputs
  /\ clsOutput = "unset"
  /\ clsFirst = "unset"
  /\ clsCalls = 0

Classify ==
  /\ clsCalls < MaxRepeat
  /\ clsOutput' = classify(clsInput)
  /\ clsFirst' = IF clsCalls = 0 THEN classify(clsInput) ELSE clsFirst
  /\ clsCalls' = clsCalls + 1
  /\ UNCHANGED << clsInput, notClsVars >>

ClsNext == Classify

(* ---------------------------------------------------------------------- *)
(* LLM provider manager (LLM Configuration Guide)                          *)
(* ---------------------------------------------------------------------- *)

Providers == {"openai", "anthropic", "gemini"}

\* maximum attempts per provider
LLM_MAX_RETRIES == 3

Range(s) == {s[i] : i \in DOMAIN s}

\* every way to write LLM_PRIORITY_ORDER: provider names, none of them twice
PriorityOrders ==
  {s \in UNION {[1..n -> Providers] : n \in 1..Cardinality(Providers)} :
     \A i, j \in DOMAIN s : i # j => s[i] # s[j]}

RECURSIVE SelectSeq2(_, _)
\* the elements of s that are in keep, in the order of s
SelectSeq2(s, keep) ==
  IF s = << >> THEN << >>
  ELSE IF Head(s) \in keep THEN << Head(s) >> \o SelectSeq2(Tail(s), keep)
  ELSE SelectSeq2(Tail(s), keep)

available_providers_EnabledOnly(enabled, keys) == enabled

\* initialization: the providers that are enabled and have an API key
available_providers(enabled, keys) == enabled \cap keys

\* priority sorting: the available providers in the order of LLM_PRIORITY_ORDER
sort_by_priority(order, avail) == SelectSeq2(order, avail)

\* the request's preferred provider goes first when it is available; the guide
\* does not say whether the preference outranks LLM_PRIORITY_ORDER, so LlmStart
\* allows both
prefer(queue, preferred) ==
  IF preferred \in Range(queue)
    THEN << preferred >> \o SelectSeq2(queue, Range(queue) \ {preferred})
    ELSE queue



\* an API error is retried until the provider has been tried LLM_MAX_RETRIES times
should_retry(errors) == errors < LLM_MAX_RETRIES

has_fallback_Always(queue, fallback) == Len(queue) > 1

\* another provider is tried only when fallback is enabled and one is left
has_fallback(queue, fallback) == fallback /\ Len(queue) > 1

LlmParked ==
  /\ llmEnabled = {}
  /\ llmKeys = {}
  /\ llmOrder = << "openai" >>
  /\ llmFallback = FALSE
  /\ llmPreferred = "none"
  /\ llmPc = "idle"
  /\ llmQueue = << >>
  /\ llmTried = << >>
  /\ llmCalls = [p \in Providers |-> 0]
  /\ llmErrors = [p \in Providers |-> 0]
  /\ llmTimedOut = {}
  /\ llmResult = "pending"

\* any configuration whose enabled providers are all named in the priority order
LlmInit ==
  /\ llmOrder \in PriorityOrders
  /\ llmEnabled \in SUBSET Range(llmOrder)
  /\ llmKeys \in SUBSET Providers
  /\ llmFallback \in BOOLEAN
  /\ llmPreferred \in Providers \cup {"none"}
  /\ llmPc = "idle"
  /\ llmQueue = << >>
  /\ llmTried = << >>
  /\ llmCalls = [p \in Providers |-> 0]
  /\ llmErrors = [p \in Providers |-> 0]
  /\ llmTimedOut = {}
  /\ llmResult = "pending"

LlmConfigUnchanged ==
  UNCHANGED << llmEnabled, llmKeys, llmOrder, llmFallback, llmPreferred, notLlmVars >>

\* the analysis asks for recommendations: the providers to try are lined up
LlmStart ==
  /\ llmPc = "idle"
  /\ LET sorted == sort_by_priority(llmOrder, available_providers(llmEnabled, llmKeys))
     IN \E queue \in {sorted, prefer(sorted, llmPreferred)} :
          /\ llmQueue' = queue
          /\ llmPc' = IF queue = << >> THEN "done" ELSE "calling"
          /\ llmResult' = IF queue = << >> THEN "error" ELSE "pending"
  /\ UNCHANGED << llmTried, llmCalls, llmErrors, llmTimedOut >>
  /\ LlmConfigUnchanged

Called(p) ==
  /\ llmCalls' = [llmCalls EXCEPT ![p] = @ + 1]
  /\ llmTried' = IF p \in Range(llmTried) THEN llmTried ELSE Append(llmTried, p)

\* the current provider is left: the next one is tried, or the analysis ends
\* with the standardized error response
MoveOn ==
  IF has_fallback(llmQueue, llmFallback)
    THEN /\ llmQueue' = Tail(llmQueue)
         /\ UNCHANGED << llmPc, llmResult >>
    ELSE /\ llmQueue' = << >>
         /\ llmPc' = "done"
         /\ llmResult' = "error"

\* the current provider answers
LlmSuccess ==
  /\ llmPc = "calling"
  /\ Called(Head(llmQueue))
  /\ llmPc' = "done"
  /\ llmResult' = Head(llmQueue)
  /\ UNCHANGED << llmQueue, llmErrors, llmTimedOut >>
  /\ LlmConfigUnchanged

\* the current provider answers with an API error: retry, or move on
LlmApiError ==
  /\ llmPc = "calling"
  /\ LET p == Head(llmQueue)
     IN /\ Called(p)
        /\ llmErrors' = [llmErrors EXCEPT ![p] = @ + 1]
        /\ IF should_retry(llmErrors[p] + 1)
             THEN UNCHANGED << llmQueue, llmPc, llmResult >>
             ELSE MoveOn
  /\ UNCHANGED llmTimedOut
  /\ LlmConfigUnchanged

\* the call to the current provider times out: the provider is skipped
LlmTimeout ==
  /\ llmPc = "calling"
  /\ Called(Head(llmQueue))
  /\ llmTimedOut' = llmTimedOut \cup {Head(llmQueue)}
  /\ MoveOn
  /\ UNCHANGED llmErrors
  /\ LlmConfigUnchanged

LlmNext == LlmStart \/ LlmSuccess \/ LlmApiError \/ LlmTimeout

(* ---------------------------------------------------------------------- *)
(* Marker colours (GeoMap.vue, StaticMap.vue)                              *)
(* ---------------------------------------------------------------------- *)

\* largest average ranking tried
MaxRanking == 30

GeoMap_getMarkerColor_Strict(ranking) ==
  IF ranking < 3 THEN "#10B981"
  ELSE IF ranking < 10 THEN "#F59E0B"
  ELSE IF ranking < 20 THEN "#F97316"
  ELSE "#EF4444"

GeoMap_getMarkerColor(ranking) ==
  IF ranking <= 3 THEN "#10B981"
  ELSE IF ranking <= 10 THEN "#F59E0B"
  ELSE IF ranking <= 20 THEN "#F97316"
  ELSE "#EF4444"

StaticMap_getMarkerColor(ranking) ==
  IF ranking <= 3 THEN "#10B981"
  ELSE IF ranking <= 10 THEN "#F59E0B"
  ELSE IF ranking <= 20 THEN "#F97316"
  ELSE "#EF4444"

McParked ==
  /\ mcRanking = 0
  /\ mcGeo = "unset"
  /\ mcStatic = "unset"

\* avgRanking is Math.round of a mean of positions, 0 when none is known
McInit ==
  /\ mcRanking \in 0..MaxRanking
  /\ mcGeo = "unset"
  /\ mcStatic = "unset"

GeoMapColour ==
  /\ mcGeo = "unset"
  /\ mcGeo' = GeoMap_getMarkerColor(mcRanking)
  /\ UNCHANGED << mcRanking, mcStatic, notMcVars >>

StaticMapColour ==
  /\ mcStatic = "unset"
  /\ mcStatic' = StaticMap_getMarkerColor(mcRanking)
  /\ UNCHANGED << mcRanking, mcGeo, notMcVars >>

McNext == GeoMapColour \/ StaticMapColour

(* ---------------------------------------------------------------------- *)
(* GeoMap.vue: markers of the interactive map                              *)
(* ---------------------------------------------------------------------- *)

GeoLocations == {"loc1", "loc2"}

\* the order in which geoResults.locations lists them
LocationOrder == << "loc1", "loc2" >>

GeoKeywords == {"seo", "web"}

KeywordRankings == [keyword : GeoKeywords, location_id : GeoLocations]

\* values of the geoResults prop; a missing locations or keyword_rankings
\* field is has... = FALSE with an empty set
GeoResultsValues ==
  {r \in [hasLocations : BOOLEAN, locations : SUBSET GeoLocations,
          hasRankings : BOOLEAN, keyword_rankings : SUBSET KeywordRankings] :
     /\ ~r.hasLocations => r.locations = {}
     /\ ~r.hasRankings => r.keyword_rankings = {}}

\* computed keywords: the keywords offered by the selector
GeoMap_keywords(results) == {k.keyword : k \in results.keyword_rankings}

\* the rankings updateMapMarkers works on
getFilteredData(results, selected) ==
  IF selected = "" THEN results.keyword_rankings
  ELSE {k \in results.keyword_rankings : k.keyword = selected}

\* the forEach over data.locations: a marker for each location with a ranking
DrawMarkers(results, rankings) ==
  SelectSeq2(LocationOrder,
             {l \in results.locations : \E k \in rankings : k.location_id = l})

MarkersAfterUpdate(kept, results, selected) ==
  IF selected # "" /\ ~results.hasRankings THEN kept
  ELSE IF ~results.hasLocations \/ ~results.hasRankings THEN kept
  ELSE kept \o DrawMarkers(results, getFilteredData(results, selected))

updateMapMarkers_NoClear(map, markers, results, selected) ==
  IF ~map THEN markers ELSE MarkersAfterUpdate(markers, results, selected)

\* nothing without a map; otherwise the layer is cleared first, then
\* getFilteredData may throw (filter of a missing keyword_rankings) or the
\* function may return early, and else the markers are drawn
updateMapMarkers(map, markers, results, selected) ==
  IF ~map THEN markers ELSE MarkersAfterUpdate(<< >>, results, selected)

GmParked ==
  /\ gmResults = [hasLocations |-> FALSE, locations |-> {},
                  hasRankings |-> FALSE, keyword_rankings |-> {}]
  /\ gmSelected = ""
  /\ gmMap = FALSE
  /\ gmMarkers = << >>
  /\ gmDrawn = {}

GmInit ==
  /\ gmResults \in GeoResultsValues
  /\ gmSelected = ""
  /\ gmMap = FALSE
  /\ gmMarkers = << >>
  /\ gmDrawn = {}

Redraw(map, results, selected) ==
  /\ gmMarkers' = updateMapMarkers(map, gmMarkers, results, selected)
  /\ gmDrawn' = gmDrawn \cup Range(updateMapMarkers(map, gmMarkers, results, selected))

\* onMounted: initMap, then updateMapMarkers
GmMounted ==
  /\ ~gmMap
  /\ gmMap' = TRUE
  /\ Redraw(TRUE, gmResults, gmSelected)
  /\ UNCHANGED << gmResults, gmSelected, notGmVars >>

\* the user picks an entry of the selector; the watcher redraws
SelectKeyword(k) ==
  /\ k # gmSelected
  /\ gmSelected' = k
  /\ Redraw(gmMap, gmResults, k)
  /\ UNCHANGED << gmResults, gmMap, notGmVars >>

\* the parent passes new results; the watcher redraws when there is a map
GeoResultsChanged(r) ==
  /\ r # gmResults
  /\ gmResults' = r
  /\ Redraw(gmMap, r, gmSelected)
  /\ UNCHANGED << gmSelected, gmMap, notGmVars >>

GmNext ==
  \/ GmMounted
  \/ \E k \in GeoMap_keywords(gmResults) \cup {""} : SelectKeyword(k)
  \/ \E r \in GeoResultsValues : GeoResultsChanged(r)

(* ---------------------------------------------------------------------- *)
(* StaticMap.vue: the list of generated maps                               *)
(* ---------------------------------------------------------------------- *)

\* the order in which keyword_rankings first names the keywords
KeywordOrder == << "seo", "web" >>

\* computed keywords: each keyword of keyword_rankings once
StaticMap_keywords(present) == SelectSeq2(KeywordOrder, present)

StoreMap_AlwaysPush(maps, keyword) == Append(maps, keyword)

\* end of generateStaticMap: the entry of the keyword is replaced in place,
\* or a new entry is pushed
StoreMap(maps, keyword) ==
  IF keyword \in Range(maps) THEN maps ELSE Append(maps, keyword)

\* removeMap: the entries of the keyword are filtered out
removeMap(maps, keyword) == SelectSeq2(maps, Range(maps) \ {keyword})

SmParked ==
  /\ smKeywords = {}
  /\ smMounted = FALSE
  /\ smMaps = << >>
  /\ smGenerating = FALSE
  /\ smPhase = "idle"
  /\ smTodo = << >>
  /\ smSingle = {}
  /\ smRunOk = TRUE
  /\ smRunClean = TRUE

SmInit ==
  /\ smKeywords \in SUBSET GeoKeywords
  /\ smMounted = FALSE
  /\ smMaps = << >>
  /\ smGenerating = FALSE
  /\ smPhase = "idle"
  /\ smTodo = << >>
  /\ smSingle = {}
  /\ smRunOk = TRUE
  /\ smRunClean = TRUE

RunActive == smPhase \in {"capturing", "pausing"}

\* "done" marks only the state generateAllMaps completed in
PhaseAfterOther == IF smPhase = "done" THEN "idle" ELSE smPhase

\* generateAllMaps up to its first await: the loop takes the keywords as they
\* are now and enters generateStaticMap for the first, or ends at once
BeginAll ==
  /\ smTodo' = StaticMap_keywords(smKeywords)
  /\ smPhase' = IF smKeywords = {} THEN "done" ELSE "capturing"
  /\ smGenerating' = (smKeywords # {})
  /\ smRunOk' = TRUE
  /\ smRunClean' = TRUE

\* onMounted: generateAllMaps when there are keywords
SmMounted ==
  /\ ~smMounted
  /\ smMounted' = TRUE
  /\ IF smKeywords # {} THEN BeginAll
     ELSE UNCHANGED << smTodo, smPhase, smGenerating, smRunOk, smRunClean >>
  /\ UNCHANGED << smKeywords, smMaps, smSingle, notSmVars >>

\* click on "Todas las palabras clave", enabled while isGenerating is false
GenerateAllClicked ==
  /\ smMounted
  /\ ~smGenerating
  /\ ~RunActive
  /\ BeginAll
  /\ UNCHANGED << smKeywords, smMounted, smMaps, smSingle, notSmVars >>

\* the capture of the run's current keyword ends: the map is stored, or the
\* error is logged; finally isGenerating is reset and the pause begins
AllCaptureEnds(ok) ==
  /\ smPhase = "capturing"
  /\ smMaps' = IF ok THEN StoreMap(smMaps, Head(smTodo)) ELSE smMaps
  /\ smRunOk' = (smRunOk /\ ok)
  /\ smGenerating' = FALSE
  /\ smPhase' = "pausing"
  /\ UNCHANGED << smKeywords, smMounted, smTodo, smSingle, smRunClean, notSmVars >>

\* the pause ends: generateStaticMap is entered for the next keyword, or the
\* loop is over and generateAllMaps completes
AllPauseEnds ==
  /\ smPhase = "pausing"
  /\ smTodo' = Tail(smTodo)
  /\ smPhase' = IF Tail(smTodo) = << >> THEN "done" ELSE "capturing"
  /\ smGenerating' = (Tail(smTodo) # << >>)
  /\ UNCHANGED << smKeywords, smMounted, smMaps, smSingle, smRunOk, smRunClean,
                  notSmVars >>

\* click on a keyword's button, enabled while isGenerating is false
GenerateOneClicked(k) ==
  /\ smMounted
  /\ ~smGenerating
  /\ k \in smKeywords
  /\ k \notin smSingle
  /\ smSingle' = smSingle \cup {k}
  /\ smGenerating' = TRUE
  /\ smPhase' = PhaseAfterOther
  /\ UNCHANGED << smKeywords, smMounted, smMaps, smTodo, smRunOk, smRunClean,
                  notSmVars >>

\* the capture started by a keyword's button ends
OneCaptureEnds(k, ok) ==
  /\ k \in smSingle
  /\ smSingle' = smSingle \ {k}
  /\ smMaps' = IF ok THEN StoreMap(smMaps, k) ELSE smMaps
  /\ smGenerating' = FALSE
  /\ smPhase' = PhaseAfterOther
  /\ UNCHANGED << smKeywords, smMounted, smTodo, smRunOk, smRunClean, notSmVars >>

\* click on "Eliminar" of a generated map; the button is never disabled
RemoveMapClicked(k) ==
  /\ k \in Range(smMaps)
  /\ smMaps' = removeMap(smMaps, k)
  /\ smRunClean' = (smRunClean /\ ~RunActive)
  /\ smPhase' = PhaseAfterOther
  /\ UNCHANGED << smKeywords, smMounted, smGenerating, smTodo, smSingle, smRunOk,
                  notSmVars >>

\* the parent passes new geoResults
StaticMapResultsChanged(present) ==
  /\ present # smKeywords
  /\ smKeywords' = present
  /\ smRunClean' = (smRunClean /\ ~RunActive)
  /\ smPhase' = PhaseAfterOther
  /\ UNCHANGED << smMounted, smMaps, smGenerating, smTodo, smSingle, smRunOk,
                  notSmVars >>

SmNext ==
  \/ SmMounted
  \/ GenerateAllClicked
  \/ \E ok \in BOOLEAN : AllCaptureEnds(ok)
  \/ AllPauseEnds
  \/ \E k \in GeoKeywords : GenerateOneClicked(k)
  \/ \E k \in GeoKeywords, ok \in BOOLEAN : OneCaptureEnds(k, ok)
  \/ \E k \in GeoKeywords : RemoveMapClicked(k)
  \/ \E present \in SUBSET GeoKeywords : StaticMapResultsChanged(present)

(* ---------------------------------------------------------------------- *)
(* Analyze.vue: the analysis form                                          *)
(* ---------------------------------------------------------------------- *)

\* value of a number input bound with v-model: the empty string, or the
\* number typed in
Blank == [empty |-> TRUE, n |-> 0]

Num(n) == [empty |-> FALSE, n |-> n]

\* value of a request field: null, or a number
Null == [null |-> TRUE, n |-> 0]

Sent(n) == [null |-> FALSE, n |-> n]

LatitudeInputs == {Blank} \cup {Num(n) : n \in {-91, -90, 0, 45, 90, 91}}

LongitudeInputs == {Blank} \cup {Num(n) : n \in {-181, -180, 0, -75, 180, 181}}

RadiusInputs == {Blank} \cup {Num(n) : n \in {0, 10, 101}}

SamplesInputs == {Blank} \cup {Num(n) : n \in {0, 10, 51}}

UrlInputs == {"", "not a url", "https://example.com"}

LocationInputs == {"", "Madrid"}

\* keywords field: nothing, commas and blanks only, or a keyword
KeywordsInputs == {"", " , ", "seo"}

\* what split(',').map(trim).filter(nonempty) leaves of the keywords field
SplitKeywords(text) == IF text = "seo" THEN << "seo" >> ELSE << >>



\* JavaScript truthiness of a number-input value: '' and 0 are falsy


Truthy(v) == ~v.empty /\ v.n # 0

isValidUrl(text) == text = "https://example.com"

\* the keys validateForm leaves in errors
validateForm(include, f) ==
  (IF f.url = "" \/ ~isValidUrl(f.url) THEN {"url"} ELSE {})
  \cup (IF f.seo_goal = "" THEN {"seo_goal"} ELSE {})
  \cup (IF f.language = "" THEN {"language"} ELSE {})
  \cup (IF ~include THEN {} ELSE
         (IF f.location = "" /\ (~Truthy(f.latitude) \/ ~Truthy(f.longitude))
            THEN {"location", "latitude", "longitude"} ELSE {})
         \cup (IF Truthy(f.latitude) /\ (f.latitude.n < -90 \/ f.latitude.n > 90)
                 THEN {"latitude"} ELSE {})
         \cup (IF Truthy(f.longitude) /\ (f.longitude.n < -180 \/ f.longitude.n > 180)
                 THEN {"longitude"} ELSE {})
         \cup (IF Truthy(f.local_radius_km)
                   /\ (f.local_radius_km.n < 1 \/ f.local_radius_km.n > 100)
                 THEN {"local_radius_km"} ELSE {})
         \cup (IF Truthy(f.geo_samples) /\ (f.geo_samples.n < 1 \/ f.geo_samples.n > 50)
                 THEN {"geo_samples"} ELSE {})
         \cup (IF f.keywords # "" /\ SplitKeywords(f.keywords) = << >>
                 THEN {"keywords"} ELSE {}))

\* a number field of analysisData: value ? parse(value) : null
NumberOrNull(v) == IF Truthy(v) THEN Sent(v.n) ELSE Null

analysisData(f) ==
  [url |-> f.url, seo_goal |-> f.seo_goal, language |-> f.language,
   location |-> f.location, keywords |-> SplitKeywords(f.keywords),
   latitude |-> NumberOrNull(f.latitude), longitude |-> NumberOrNull(f.longitude),
   local_radius_km |-> NumberOrNull(f.local_radius_km),
   geo_samples |-> NumberOrNull(f.geo_samples)]

EmptyForm ==
  [url |-> "", seo_goal |-> "", language |-> "", location |-> "", keywords |-> "",
   latitude |-> Blank, longitude |-> Blank,
   local_radius_km |-> Num(10), geo_samples |-> Num(10)]

NoRequest == analysisData(EmptyForm)

AzParked ==
  /\ azIncludeLocal = FALSE
  /\ azForm = EmptyForm
  /\ azOutcome = "none"
  /\ azRequest = NoRequest

AzInit == AzParked

\* the user fills in the fields that are always shown
EditBasics(u, g, l) ==
  /\ azForm' = [azForm EXCEPT !.url = u, !.seo_goal = g, !.language = l]
  /\ azForm' # azForm
  /\ azOutcome' = "none"
  /\ azRequest' = NoRequest
  /\ UNCHANGED << azIncludeLocal, notAzVars >>

\* the checkbox is toggled; unchecking it resets the local fields (watch)
ToggleIncludeLocal ==
  /\ azIncludeLocal' = ~azIncludeLocal
  /\ azForm' = IF azIncludeLocal
                 THEN [azForm EXCEPT !.location = "", !.keywords = "",
                                     !.latitude = Blank, !.longitude = Blank,
                                     !.local_radius_km = Num(10),
                                     !.geo_samples = Num(10)]
                 ELSE azForm
  /\ azOutcome' = "none"
  /\ azRequest' = NoRequest
  /\ UNCHANGED notAzVars

\* the user fills in a field of the local block, shown while the box is checked
EditLocal(field, v) ==
  /\ azIncludeLocal
  /\ azForm' = [azForm EXCEPT ![field] = v]
  /\ azForm' # azForm
  /\ azOutcome' = "none"
  /\ azRequest' = NoRequest
  /\ UNCHANGED << azIncludeLocal, notAzVars >>

\* startAnalysis: validateForm, then the toast or the request to the store
SubmitAnalysis ==
  /\ azOutcome = "none"
  /\ IF validateForm(azIncludeLocal, azForm) = {}
       THEN /\ azOutcome' = "sent"
            /\ azRequest' = analysisData(azForm)
       ELSE /\ azOutcome' = "rejected"
            /\ azRequest' = NoRequest
  /\ UNCHANGED << azIncludeLocal, azForm, notAzVars >>

AzNext ==
  \/ \E u \in UrlInputs, g \in {"", "rank"}, l \in {"", "es"} : EditBasics(u, g, l)
  \/ ToggleIncludeLocal
  \/ \E v \in LocationInputs : EditLocal("location", v)
  \/ \E v \in KeywordsInputs : EditLocal("keywords", v)
  \/ \E v \in LatitudeInputs : EditLocal("latitude", v)
  \/ \E v \in LongitudeInputs : EditLocal("longitude", v)
  \/ \E v \in RadiusInputs : EditLocal("local_radius_km", v)
  \/ \E v \in SamplesInputs : EditLocal("geo_samples", v)
  \/ SubmitAnalysis

(* ---------------------------------------------------------------------- *)
(* GeoAnalysis view: the geo ranking form                                  *)
(* ---------------------------------------------------------------------- *)

\* what the user can put into each field of the form
GeoFieldInputs ==
  [url |-> UrlInputs, company_name |-> {"", "Acme"}, keywords |-> KeywordsInputs,
   location |-> LocationInputs,
   latitude |-> {Blank, Num(45)}, longitude |-> {Blank, Num(-75)},
   local_radius_km |-> {Blank, Num(0), Num(10)},
   geo_samples |-> {Blank, Num(0), Num(10)}]



\* the keys validateForm sets for the form as it stands
GeoFieldErrors(f) ==
  (IF f.url = "" \/ ~isValidUrl(f.url) THEN {"url"} ELSE {})
  \cup (IF f.company_name = "" THEN {"company_name"} ELSE {})
  \cup (IF f.keywords = "" \/ SplitKeywords(f.keywords) = << >> THEN {"keywords"} ELSE {})
  \cup (IF f.location = "" THEN {"location"} ELSE {})
  \cup (IF ~Truthy(f.local_radius_km) THEN {"local_radius_km"} ELSE {})
  \cup (IF ~Truthy(f.geo_samples) THEN {"geo_samples"} ELSE {})

\* validateForm of the GeoAnalysis view: errors is reactive({}), so
\* "errors.value = {}" sets a key named value and removes nothing; the keys
\* of failing fields are added
GeoAnalysis_validateForm(errors, f) == errors \cup {"value"} \cup GeoFieldErrors(f)

geoData(f) ==
  [url |-> f.url, company_name |-> f.company_name,
   keywords |-> SplitKeywords(f.keywords), location |-> f.location,
   latitude |-> NumberOrNull(f.latitude), longitude |-> NumberOrNull(f.longitude),
   local_radius_km |-> f.local_radius_km.n, geo_samples |-> f.geo_samples.n]

EmptyGeoForm ==
  [url |-> "", company_name |-> "", keywords |-> "", location |-> "",
   latitude |-> Blank, longitude |-> Blank,
   local_radius_km |-> Num(10), geo_samples |-> Num(10)]

NoGeoRequest == geoData(EmptyGeoForm)

GaParked ==
  /\ gaForm = EmptyGeoForm
  /\ gaErrors = {}
  /\ gaOutcome = "none"
  /\ gaCalls = 0
  /\ gaRequest = NoGeoRequest

GaInit == GaParked

\* the user changes a field of the form
EditGeoForm(field, v) ==
  /\ v # gaForm[field]
  /\ gaForm' = [gaForm EXCEPT ![field] = v]
  /\ gaOutcome' = "none"
  /\ gaCalls' = 0
  /\ gaRequest' = NoGeoRequest
  /\ UNCHANGED << gaErrors, notGaVars >>

\* startGeoAnalysis: validateForm, then the toast or the call of the store
SubmitGeoAnalysis ==
  /\ gaOutcome = "none"
  /\ gaErrors' = GeoAnalysis_validateForm(gaErrors, gaForm)
  /\ IF GeoAnalysis_validateForm(gaErrors, gaForm) = {}
       THEN /\ gaOutcome' = "sent"
            /\ gaCalls' = 1
            /\ gaRequest' = geoData(gaForm)
       ELSE /\ gaOutcome' = "rejected"
            /\ gaCalls' = 0
            /\ gaRequest' = NoGeoRequest
  /\ UNCHANGED << gaForm, notGaVars >>

GaNext ==
  \/ \E field \in DOMAIN GeoFieldInputs :
       \E v \in GeoFieldInputs[field] : EditGeoForm(field, v)
  \/ SubmitGeoAnalysis

(* ---------------------------------------------------------------------- *)
(* Analysis store (stores/analysis.js)                                     *)
(* ---------------------------------------------------------------------- *)

\* calls of store actions made during one session
NumStoreCalls == 2

StoreCalls == 1..NumStoreCalls

StoreOps == {"startAnalysis", "startGeoAnalysis", "getAnalysisById", "getRecentAnalyses"}

\* ids the server gives to analyses
AnalysisIds == {"a1", "a2"}

\* how a request fails: no response at all, a response without detail, or a
\* response with a detail text
Failures == {"no_response", "no_detail", "Rate limit exceeded"}

DefaultMessage(op) ==
  CASE op = "startAnalysis" -> "Error al realizar el análisis"
    [] op = "startGeoAnalysis" -> "Error al realizar el análisis geográfico"
    [] op = "getAnalysisById" -> "Error al obtener el análisis"
    [] OTHER -> "Error al obtener los análisis"

error_message_Raw(op, failure) == failure

\* err.response?.data?.detail || default
error_message(op, failure) ==
  IF failure \in {"no_response", "no_detail"} THEN DefaultMessage(op) ELSE failure

\* what a successful call stores in currentAnalysis
current_after(op, current, id) ==
  IF op \in {"startAnalysis", "startGeoAnalysis"} THEN id ELSE current

\* what a successful call leaves in analysisHistory: startAnalysis unshifts
history_after(op, history, id) ==
  IF op = "startAnalysis" THEN << id >> \o history ELSE history

StParked ==
  /\ stOp = [c \in StoreCalls |-> "none"]
  /\ stPc = [c \in StoreCalls |-> "idle"]
  /\ isLoading = FALSE
  /\ error = "null"
  /\ currentAnalysis = "null"
  /\ analysisHistory = << >>

StInit == StParked

\* a view calls a store action: the lines before the await
StoreBegin(c, op) ==
  /\ stPc[c] = "idle"
  /\ \A b \in StoreCalls : b < c => stPc[b] # "idle"
  /\ stOp' = [stOp EXCEPT ![c] = op]
  /\ stPc' = [stPc EXCEPT ![c] = "inflight"]
  /\ isLoading' = TRUE
  /\ error' = "null"
  /\ UNCHANGED << currentAnalysis, analysisHistory, notStVars >>

\* the request is answered: the try block's rest, then finally
StoreResolve(c, id) ==
  /\ stPc[c] = "inflight"
  /\ stPc' = [stPc EXCEPT ![c] = "returned"]
  /\ currentAnalysis' = current_after(stOp[c], currentAnalysis, id)
  /\ analysisHistory' = history_after(stOp[c], analysisHistory, id)
  /\ isLoading' = FALSE
  /\ UNCHANGED << stOp, error, notStVars >>

\* the request fails: the catch block, then finally
StoreReject(c, failure) ==
  /\ stPc[c] = "inflight"
  /\ stPc' = [stPc EXCEPT ![c] = "thrown"]
  /\ error' = error_message(stOp[c], failure)
  /\ isLoading' = FALSE
  /\ UNCHANGED << stOp, currentAnalysis, analysisHistory, notStVars >>

StNext ==
  \/ \E c \in StoreCalls, op \in StoreOps : StoreBegin(c, op)
  \/ \E c \in StoreCalls, id \in AnalysisIds : StoreResolve(c, id)
  \/ \E c \in StoreCalls, failure \in Failures : StoreReject(c, failure)

(* ---------------------------------------------------------------------- *)
(* Grouped reports view: the reports of the expanded group                 *)
(* ---------------------------------------------------------------------- *)

GroupUrls == {"https://a.example", "https://b.example"}

groupPerPage == 20

\* reports the server holds for every group
ReportsPerGroup == 30

\* fetchReportsByUrl calls in flight at one time
MaxFetches == 2

\* the page of a group's reports the server answers with
ReportsOf(group, pg) == [url |-> group, page |-> pg]

NoReports == [url |-> "none", page |-> 0]

GrParked ==
  /\ expandedGroup = "null"
  /\ groupReports = NoReports
  /\ groupPage = 1
  /\ groupTotal = 0
  /\ grFetches = {}
  /\ byUrlLoading = FALSE

GrInit == GrParked

\* loadGroupReports up to its await
FetchStarted(group, pg) == grFetches \cup {[url |-> group, page |-> pg]}

\* click on a group's header: collapse it when it is the expanded one,
\* otherwise expand it and load its first page
expandGroup(group) ==
  /\ IF expandedGroup = group
       THEN /\ expandedGroup' = "null"
            /\ groupReports' = NoReports
            /\ UNCHANGED << groupPage, grFetches, byUrlLoading >>
       ELSE /\ Cardinality(grFetches) < MaxFetches
            /\ expandedGroup' = group
            /\ groupPage' = 1
            /\ grFetches' = FetchStarted(group, 1)
            /\ byUrlLoading' = TRUE
            /\ UNCHANGED groupReports
  /\ UNCHANGED << groupTotal, notGrVars >>

nextGroupPage(group) ==
  /\ expandedGroup = group
  /\ groupPage * groupPerPage < groupTotal
  /\ ~byUrlLoading
  /\ Cardinality(grFetches) < MaxFetches
  /\ grFetches' = FetchStarted(group, groupPage + 1)
  /\ byUrlLoading' = TRUE
  /\ UNCHANGED << expandedGroup, groupReports, groupPage, groupTotal, notGrVars >>

prevGroupPage(group) ==
  /\ expandedGroup = group
  /\ groupPage # 1
  /\ ~byUrlLoading
  /\ Cardinality(grFetches) < MaxFetches
  /\ grFetches' = FetchStarted(group, groupPage - 1)
  /\ byUrlLoading' = TRUE
  /\ UNCHANGED << expandedGroup, groupReports, groupPage, groupTotal, notGrVars >>

\* a response arrives: the rest of loadGroupReports
FetchArrives(f) ==
  /\ f \in grFetches
  /\ grFetches' = grFetches \ {f}
  /\ groupReports' = ReportsOf(f.url, f.page)
  /\ groupTotal' = ReportsPerGroup
  /\ groupPage' = f.page
  /\ byUrlLoading' = FALSE
  /\ UNCHANGED << expandedGroup, notGrVars >>

\* a request fails: fetchReportsByUrl throws and loadGroupReports ends there
FetchFails(f) ==
  /\ f \in grFetches
  /\ grFetches' = grFetches \ {f}
  /\ byUrlLoading' = FALSE
  /\ UNCHANGED << expandedGroup, groupReports, groupPage, groupTotal, notGrVars >>

GrNext ==
  \/ \E group \in GroupUrls : expandGroup(group)
  \/ \E group \in GroupUrls : nextGroupPage(group)
  \/ \E group \in GroupUrls : prevGroupPage(group)
  \/ \E f \in grFetches : FetchArrives(f)
  \/ \E f \in grFetches : FetchFails(f)

(* ---------------------------------------------------------------------- *)
(* Analyze.vue / GeoAnalysis view: the simulated progress of a submit      *)
(* ---------------------------------------------------------------------- *)

\* submits of the form during one visit
MaxSubmits == 2

\* whole percents a tick can add: Math.random() * 10 lies in [0, 10)
TickSteps == {1, 5, 9}

PrParked ==
  /\ progress = 0
  /\ prTimers = 0
  /\ prSubmits = 0
  /\ prCall = "none"

PrInit == PrParked

\* startAnalysis after a passed validation, up to the await: the interval
\* is started and the store action called
SubmitStarts ==
  /\ prCall # "inflight"
  /\ prSubmits < MaxSubmits
  /\ prSubmits' = prSubmits + 1
  /\ prTimers' = prTimers + 1
  /\ prCall' = "inflight"
  /\ UNCHANGED << progress, notPrVars >>

\* a live interval fires
ProgressTick(step) ==
  /\ prTimers > 0
  /\ progress < 90
  /\ progress' = progress + step
  /\ UNCHANGED << prTimers, prSubmits, prCall, notPrVars >>

\* the store action returns: clearInterval, progress 100
CallSucceeds ==
  /\ prCall = "inflight"
  /\ prCall' = "succeeded"
  /\ prTimers' = prTimers - 1
  /\ progress' = 100
  /\ UNCHANGED << prSubmits, notPrVars >>

\* the store action throws: the catch block sets progress to 0 and logs
CallFails ==
  /\ prCall = "inflight"
  /\ prCall' = "failed"
  /\ progress' = 0
  /\ UNCHANGED << prTimers, prSubmits, notPrVars >>

PrNext ==
  \/ SubmitStarts
  \/ \E step \in TickSteps : ProgressTick(step)
  \/ CallSucceeds
  \/ CallFails

(* ---------------------------------------------------------------------- *)
(* MyReports view: pages of URL groups and the delete dialog               *)
(* ---------------------------------------------------------------------- *)

\* reports the server holds when the view is opened
NumReports == 7

\* deleteReport calls in flight at one time
MaxDeletes == 2

itemsPerPage == 5

ReportIds == 1..NumReports

\* every report has its own URL, but the last one shares the URL of the first
ReportUrl(id) == IF id = NumReports THEN 1 ELSE id

ReportType(id) == IF id % 2 = 1 THEN "seo" ELSE "geo"

TypeFilters == {"", "seo", "geo"}

\* reportsStore.urlGroups: the URLs of the reports in the store
urlGroups(reports) == {ReportUrl(id) : id \in reports}

\* filteredUrlGroups, by type: the groups with a report of the selected type
filteredUrlGroups(reports, type) ==
  IF type = "" THEN urlGroups(reports)
  ELSE {ReportUrl(id) : id \in {r \in reports : ReportType(r) = type}}

\* Math.ceil(length / itemsPerPage)
totalPages(reports, type) ==
  (Cardinality(filteredUrlGroups(reports, type)) + itemsPerPage - 1) \div itemsPerPage

\* number of groups on the page shown: slice(startIndex, endIndex)
paginatedCount(reports, type, pg) ==
  LET n == Cardinality(filteredUrlGroups(reports, type))
      startIndex == (pg - 1) * itemsPerPage
      endIndex == IF startIndex + itemsPerPage < n THEN startIndex + itemsPerPage ELSE n
  IN IF endIndex > startIndex THEN endIndex - startIndex ELSE 0

Max2(a, b) == IF a > b THEN a ELSE b

Min2(a, b) == IF a < b THEN a ELSE b

\* the page buttons offered
visiblePages(total, pg) ==
  LET start0 == Max2(1, pg - 2)
      end == Min2(total, start0 + 4)
      start == IF end - start0 + 1 < 5 THEN Max2(1, end - 4) ELSE start0
  IN start..end

modal_after_delete_AlwaysClose(ok, show) == FALSE

\* confirmDelete after the await: the dialog is closed on success only
modal_after_delete(ok, show) == IF ok THEN FALSE ELSE show

selection_after_delete(ok, selected) == IF ok THEN {} ELSE selected

MrParked ==
  /\ mrLoaded = FALSE
  /\ mrReports = {}
  /\ selectedType = ""
  /\ currentPage = 1
  /\ showDeleteModal = FALSE
  /\ reportToDelete = {}
  /\ mrDeleting = {}
  /\ mrLastDelete = "none"

MrInit == MrParked

\* onMounted: loadReports, answered by the server
ReportsLoaded ==
  /\ ~mrLoaded
  /\ mrLoaded' = TRUE
  /\ mrReports' = ReportIds
  /\ UNCHANGED << selectedType, currentPage, showDeleteModal, reportToDelete,
                  mrDeleting, mrLastDelete, notMrVars >>

\* the page behind the dialog's overlay cannot be clicked
PageClickable == ~showDeleteModal

PaginationShown == totalPages(mrReports, selectedType) > 1

\* the user changes the type filter; the watcher goes back to page 1
ChangeFilter(type) ==
  /\ PageClickable
  /\ type # selectedType
  /\ selectedType' = type
  /\ currentPage' = 1
  /\ UNCHANGED << mrLoaded, mrReports, showDeleteModal, reportToDelete, mrDeleting,
                  mrLastDelete, notMrVars >>

previousPage ==
  /\ PageClickable /\ PaginationShown
  /\ currentPage > 1
  /\ currentPage' = currentPage - 1
  /\ UNCHANGED << mrLoaded, mrReports, selectedType, showDeleteModal, reportToDelete,
                  mrDeleting, mrLastDelete, notMrVars >>

nextPage ==
  /\ PageClickable /\ PaginationShown
  /\ currentPage < totalPages(mrReports, selectedType)
  /\ currentPage' = currentPage + 1
  /\ UNCHANGED << mrLoaded, mrReports, selectedType, showDeleteModal, reportToDelete,
                  mrDeleting, mrLastDelete, notMrVars >>

goToPage(pg) ==
  /\ PageClickable /\ PaginationShown
  /\ pg \in visiblePages(totalPages(mrReports, selectedType), currentPage)
  /\ pg # currentPage
  /\ currentPage' = pg
  /\ UNCHANGED << mrLoaded, mrReports, selectedType, showDeleteModal, reportToDelete,
                  mrDeleting, mrLastDelete, notMrVars >>

\* click on "Eliminar" of a report in the list: the dialog opens
deleteReport(id) ==
  /\ PageClickable
  /\ id \in mrReports
  /\ reportToDelete' = {id}
  /\ showDeleteModal' = TRUE
  /\ UNCHANGED << mrLoaded, mrReports, selectedType, currentPage, mrDeleting,
                  mrLastDelete, notMrVars >>

\* click on the dialog's "Eliminar": confirmDelete up to its await
confirmDelete ==
  /\ showDeleteModal
  /\ reportToDelete # {}
  /\ Cardinality(mrDeleting \cup reportToDelete) <= MaxDeletes
  /\ mrDeleting' = mrDeleting \cup reportToDelete
  /\ UNCHANGED << mrLoaded, mrReports, selectedType, currentPage, showDeleteModal,
                  reportToDelete, mrLastDelete, notMrVars >>

\* click on "Cancelar" or on the overlay
closeDeleteModal ==
  /\ showDeleteModal
  /\ showDeleteModal' = FALSE
  /\ reportToDelete' = {}
  /\ UNCHANGED << mrLoaded, mrReports, selectedType, currentPage, mrDeleting,
                  mrLastDelete, notMrVars >>

\* a delete request settles: the store drops the report on success, and
\* confirmDelete goes on after its await
DeleteSettles(id, ok) ==
  /\ id \in mrDeleting
  /\ mrDeleting' = mrDeleting \ {id}
  /\ mrReports' = IF ok THEN mrReports \ {id} ELSE mrReports
  /\ showDeleteModal' = modal_after_delete(ok, showDeleteModal)
  /\ reportToDelete' = selection_after_delete(ok, reportToDelete)
  /\ mrLastDelete' = IF ok THEN "ok" ELSE "failed"
  /\ UNCHANGED << mrLoaded, selectedType, currentPage, notMrVars >>

MrNext ==
  \/ ReportsLoaded
  \/ \E type \in TypeFilters : ChangeFilter(type)
  \/ previousPage
  \/ nextPage
  \/ \E pg \in 1..NumReports : goToPage(pg)
  \/ \E id \in ReportIds : deleteReport(id)
  \/ confirmDelete
  \/ closeDeleteModal
  \/ \E id \in ReportIds, ok \in BOOLEAN : DeleteSettles(id, ok)

(* ---------------------------------------------------------------------- *)
(* Properties                                                              *)
(* ---------------------------------------------------------------------- *)

RECURSIVE SumOver(_, _)
SumOver(f, keys) ==
  IF keys = {} THEN 0
  ELSE LET k == CHOOSE x \in keys : TRUE
       IN  f[k] + SumOver(f, keys \ {k})

AllRequests(u) == DOMAIN Requests(u)

DynamicFailed(c) == failedAt[c] # "none"

\* C1: when the dynamic path failed (at acquisition, observation, navigation
\* or evaluation) and the call returned a profile, that profile is exactly the
\* one the static path computes for the same URL.
C1_FallbackEqualsStatic ==
  \A c \in Calls :
    (pc[c] = "done" /\ DynamicFailed(c) /\ outcome[c] = "profile")
      => /\ result[c] = analyze_performance_static(url[c])
         /\ staticRuns[c] = 1

\* a navigation failure (timeout) on the shop page answered by the static profile
C1_Witness ==
  \E c \in Calls :
    /\ pc[c] = "done" /\ failedAt[c] = "navigate" /\ outcome[c] = "profile"
    /\ url[c] = ShopUrl
    /\ result[c].scripts_count = 2 /\ result[c].fetch_requests_count = 0

\* C2: when both the dynamic and the static path fail, the call does not
\* raise: it returns the default profile, field for field.
C2_DefaultOnTotalFailure ==
  \A c \in Calls :
    (pc[c] = "done" /\ DynamicFailed(c) /\ staticFailed[c])
      => /\ outcome[c] = "profile"
         /\ result[c] = get_default_performance_metrics

CountFields ==
  {"ttfb_ms", "resource_count", "scripts_count", "images_count",
   "stylesheets_count", "fonts_count", "fetch_requests_count", "total_requests"}

WellFormed(p) ==
  /\ DOMAIN p = ProfileFields
  /\ \A f \in CountFields : p[f] \in Nat
  /\ p.gzip_enabled \in BOOLEAN
  /\ p.lazy_loaded_images \in BOOLEAN
  /\ DOMAIN p.resource_types = ResourceTypes
  /\ \A t \in ResourceTypes : p.resource_types[t] \in Nat

\* C3: every profile a call returns, whichever path produced it, has all
\* eleven fields, a count for each resource type, and only non-negative counts.
C3_ProfileShape ==
  \A c \in Calls : outcome[c] = "profile" => WellFormed(result[c])

\* one call answered by the dynamic path and one by the static path
C3_Witness ==
  \E c, d \in Calls :
    /\ outcome[c] = "profile" /\ ~DynamicFailed(c) /\ result[c].total_requests > 0
    /\ outcome[d] = "profile" /\ DynamicFailed(d) /\ result[d].images_count = 3

\* C4: a call never gives back more pages than it took, takes at most one,
\* and once its dynamic path has ended (static path running, or call
\* finished) it holds no page and has given back exactly what it took.
C4_HandleReleasedOnce ==
  \A c \in Calls :
    /\ acquires[c] <= 1
    /\ releases[c] <= acquires[c]
    /\ Cardinality(page[c]) = acquires[c] - releases[c]
    /\ pc[c] \in {"static", "done"} => (page[c] = {} /\ releases[c] = acquires[c])

\* a call whose DOM evaluation raised after it had borrowed a page, finished
C4_Witness ==
  \E c \in Calls :
    /\ pc[c] = "done" /\ failedAt[c] = "evaluate"
    /\ acquires[c] = 1 /\ releases[c] = 1 /\ page[c] = {}

\* URLs the validator has to reject: not HTTP(S), or a disallowed host
FailsValidation(u) ==
  u.scheme \notin {"http", "https"} \/ u.host \in {"127.0.0.1", "localhost"}

NoIO(c) ==
  /\ acquires[c] = 0 /\ page[c] = {}
  /\ staticRuns[c] = 0
  /\ ~navStarted[c] /\ ~observer[c]

C6_StaticOnlyAfterDynamicFailure ==
  \A c \in Calls :
    /\ staticRuns[c] <= 1
    /\ staticRuns[c] > 0 => (DynamicFailed(c) /\ page[c] = {})
    /\ pc[c] = "static" => staticRuns[c] = 1
    /\ (pc[c] = "done" /\ outcome[c] # "validation_error" /\ ~DynamicFailed(c))
         => /\ staticRuns[c] = 0
            /\ outcome[c] = "profile"
            /\ result[c] = dynProfile[c]
            /\ result[c] = DynamicProfile(url[c], AllRequests(url[c]))

\* the dynamic path completed on the shop page and its profile was returned
C6_Witness ==
  \E c \in Calls :
    /\ pc[c] = "done" /\ url[c] = ShopUrl /\ ~DynamicFailed(c)
    /\ staticRuns[c] = 0
    /\ result[c].fetch_requests_count = 2 /\ result[c].fonts_count = 1

BorrowedCount == SumOver([c \in Calls |-> Cardinality(page[c])], Calls)
                   + Cardinality(otherPages)

\* C8: the pages borrowed at any time, counted per borrower, never exceed
\* BROWSER_POOL_SIZE; no page is held by two borrowers, and no borrowed page
\* is idle in the pool.
C8_PoolCeiling ==
  /\ BorrowedCount <= BROWSER_POOL_SIZE
  /\ \A c, d \in Calls : c # d => page[c] \cap page[d] = {}
  /\ \A c \in Calls : page[c] \cap otherPages = {}
  /\ \A c \in Calls : page[c] \cap poolIdle = {}
  /\ otherPages \cap poolIdle = {}

\* the pool is exhausted: every page is borrowed, one of them by a call
\* followed here, while another call waits for a page
C8_Witness ==
  /\ poolIdle = {}
  /\ BorrowedCount = BROWSER_POOL_SIZE
  /\ \E c, d \in Calls :
       /\ c # d
       /\ page[c] # {}
       /\ pc[d] = "acquire"

\* C9: every call on a valid URL eventually returns a profile: an I/O step
\* that never answers expires and is handled as an ordinary failure of its
\* path, never as an error raised to the caller.
C9_AlwaysReturnsProfile ==
  \A c \in Calls :
    [](pc[c] = "acquire" => <>(pc[c] = "done" /\ outcome[c] = "profile"))

\* C10: in every returned profile resource_count is the sum of the values of
\* resource_types.
C10_ResourceCountIsSum ==
  \A c \in Calls :
    outcome[c] = "profile"
      => result[c].resource_count = SumOver(result[c].resource_types, ResourceTypes)

\* a dynamic profile of the shop page: ten resources out of eleven requests
C10_Witness ==
  \E c \in Calls :
    /\ outcome[c] = "profile" /\ ~DynamicFailed(c) /\ url[c] = ShopUrl
    /\ result[c].resource_count = 10 /\ result[c].total_requests = 11
    /\ result[c].resource_types["other"] = 1

\* the requests of u the browser reports as documents
DocumentRequests(u) ==
  {i \in DOMAIN Requests(u) : Requests(u)[i].declared = "document"}

\* C11: in a profile of the dynamic path every document request is counted in
\* total_requests and in neither resource_count nor any resource_types entry:
\* total_requests minus resource_count is the number of document requests.
C11_NavigationOnlyInTotal ==
  \A c \in Calls :
    (outcome[c] = "profile" /\ ~DynamicFailed(c))
      => LET navs == Cardinality(DocumentRequests(url[c]))
         IN  /\ result[c].total_requests = Len(Requests(url[c]))
             /\ result[c].total_requests - result[c].resource_count = navs
             /\ SumOver(result[c].resource_types, ResourceTypes)
                  = result[c].total_requests - navs

\* dynamic profiles of a page with one document request and of a page with two
C11_Witness ==
  \E c, d \in Calls :
    /\ outcome[c] = "profile" /\ ~DynamicFailed(c) /\ url[c] = ShopUrl
    /\ result[c].total_requests - result[c].resource_count = 1
    /\ outcome[d] = "profile" /\ ~DynamicFailed(d) /\ url[d] = PlainUrl
    /\ result[d].total_requests = 3 /\ result[d].resource_count = 1

\* C12: every profile produced by the static path has fetch_requests_count 0
\* (and no fetch/xhr entry), whatever the markup contains.
C12_StaticHasNoFetch ==
  \A c \in Calls :
    (outcome[c] = "profile" /\ DynamicFailed(c))
      => /\ result[c].fetch_requests_count = 0
         /\ result[c].resource_types["fetch/xhr"] = 0

\* a static profile of the shop page, whose markup has an inline script
C12_Witness ==
  \E c \in Calls :
    /\ outcome[c] = "profile" /\ DynamicFailed(c) /\ url[c] = ShopUrl
    /\ \E i \in DOMAIN Html(url[c]) : Html(url[c])[i] = "script_inline"
    /\ result[c].fetch_requests_count = 0 /\ result[c].resource_count = 6

KnownKinds == {"document", "script", "image", "stylesheet", "font", "fetch", "xhr"}

KnownHints == {"script_src", "js", "img", "img_lazy", "png", "link_stylesheet",
               "css", "link_font", "style_font", "woff2"}

\* neither the declared kind nor, without one, the hint matches a type
NothingMatches(r) ==
  IF r.declared # "none" THEN r.declared \notin KnownKinds ELSE r.hint \notin KnownHints

Usable == {p \in Range(llmOrder) : p \in llmEnabled /\ p \in llmKeys}

\* the first of them in LLM_PRIORITY_ORDER
FirstUsable ==
  llmOrder[CHOOSE i \in DOMAIN llmOrder :
             /\ llmOrder[i] \in Usable
             /\ \A j \in DOMAIN llmOrder : llmOrder[j] \in Usable => i <= j]

NeverCallsUnusable ==
  \A p \in Providers : llmCalls[p] > 0 => p \in llmEnabled /\ p \in llmKeys

GaveUp(p) == llmErrors[p] = LLM_MAX_RETRIES

EveryUsableFailed ==
  /\ Usable # {}
  /\ \A p \in Usable : GaveUp(p) \/ p \in llmTimedOut

TableColour(r) ==
  IF r \in 1..3 THEN "#10B981"
  ELSE IF r \in 4..10 THEN "#F59E0B"
  ELSE IF r \in 11..20 THEN "#F97316"
  ELSE "#EF4444"

\* C16: getMarkerColor gives rankings 1-3 green, 4-10 yellow, 11-20 orange and
\* 21 or more red, and GeoMap and StaticMap give the same colour for every
\* ranking.
C16_MarkerColour ==
  /\ (mcGeo # "unset" /\ mcRanking >= 1) => mcGeo = TableColour(mcRanking)
  /\ (mcStatic # "unset" /\ mcRanking >= 1) => mcStatic = TableColour(mcRanking)
  /\ (mcGeo # "unset" /\ mcStatic # "unset") => mcGeo = mcStatic

\* both components coloured a ranking that sits on a band's upper edge
C16_Witness ==
  /\ mcRanking \in {3, 10, 20}
  /\ mcGeo # "unset"
  /\ mcStatic # "unset"

\* locations of geoResults with at least one ranking for the selection
LocationsToShow ==
  {l \in gmResults.locations :
     \E k \in gmResults.keyword_rankings :
       k.location_id = l /\ (gmSelected = "" \/ k.keyword = gmSelected)}

\* C17: once the map is initialised the markers are exactly one per location
\* with at least one ranking for the selected keyword (any keyword when all
\* are selected); no marker of an earlier selection remains.
C17_MarkersMatchSelection ==
  gmMap =>
    /\ Range(gmMarkers) = LocationsToShow
    /\ \A i, j \in DOMAIN gmMarkers : i # j => gmMarkers[i] # gmMarkers[j]

\* a keyword is selected, a marker is on the map, and a location that had a
\* marker earlier has none now
C17_Witness ==
  /\ gmMap
  /\ gmSelected # ""
  /\ gmMarkers # << >>
  /\ \E l \in gmDrawn : l \notin Range(gmMarkers)

MapsFor(k) == {i \in DOMAIN smMaps : smMaps[i] = k}

AtMostOneMapPerKeyword == \A k \in GeoKeywords : Cardinality(MapsFor(k)) <= 1

OneMapForEveryKeyword == \A k \in smKeywords : Cardinality(MapsFor(k)) = 1

\* C18 as stated: generatedMaps never holds two maps of one keyword, and when
\* generateAllMaps completes with every capture having succeeded it holds
\* exactly one map for each keyword of geoResults.
C18_OneMapPerKeywordAfterRun ==
  /\ AtMostOneMapPerKeyword
  /\ (smPhase = "done" /\ smRunOk) => OneMapForEveryKeyword

\* C18: generatedMaps never holds two maps of one keyword, and when
\* generateAllMaps completes with every capture having succeeded, no map
\* removed and geoResults unchanged during the run, it holds exactly one map
\* for each keyword of geoResults.
C18_OneMapPerKeywordAfterCleanRun ==
  /\ AtMostOneMapPerKeyword
  /\ (smPhase = "done" /\ smRunOk /\ smRunClean) => OneMapForEveryKeyword

\* generateAllMaps has just completed an undisturbed run over two keywords
C18_Witness ==
  /\ smPhase = "done"
  /\ smRunOk
  /\ smRunClean
  /\ Cardinality(smKeywords) = 2
  /\ Len(smMaps) = 2

Entered(v, lo, hi) == ~v.empty /\ v.n >= lo /\ v.n <= hi

\* every field other than the coordinates is filled in validly
RestOfFormValid ==
  /\ azForm.url = "https://example.com"
  /\ azForm.seo_goal # ""
  /\ azForm.language # ""
  /\ azForm.keywords \in {"", "seo"}
  /\ Entered(azForm.local_radius_km, 1, 100)
  /\ Entered(azForm.geo_samples, 1, 50)

\* C19: with the box checked, a latitude in -90..90 and a longitude in
\* -180..180 pass validation and are sent as those same numbers, never null.
C19_CoordinatesSentAsEntered ==
  (/\ azOutcome # "none"
   /\ azIncludeLocal
   /\ RestOfFormValid
   /\ Entered(azForm.latitude, -90, 90)
   /\ Entered(azForm.longitude, -180, 180))
  => /\ azOutcome = "sent"
     /\ azRequest.latitude = Sent(azForm.latitude.n)
     /\ azRequest.longitude = Sent(azForm.longitude.n)

\* parsable URL, company name, a non-blank keyword, location, non-zero radius
\* and samples
GeoFormValid ==
  /\ gaForm.url = "https://example.com"
  /\ gaForm.company_name # ""
  /\ gaForm.keywords = "seo"
  /\ gaForm.location # ""
  /\ ~gaForm.local_radius_km.empty /\ gaForm.local_radius_km.n # 0
  /\ ~gaForm.geo_samples.empty /\ gaForm.geo_samples.n # 0

\* C20: submitting a GeoAnalysis form whose fields are all valid calls
\* analysisStore.startGeoAnalysis exactly once with the request built from the
\* form, also after an earlier rejected submit.
C20_ValidFormIsSubmitted ==
  (gaOutcome # "none" /\ GeoFormValid)
  => /\ gaOutcome = "sent"
     /\ gaCalls = 1
     /\ gaRequest = [url |-> gaForm.url, company_name |-> gaForm.company_name,
                     keywords |-> << "seo" >>, location |-> gaForm.location,
                     latitude |-> IF gaForm.latitude.empty THEN Null
                                  ELSE Sent(gaForm.latitude.n),
                     longitude |-> IF gaForm.longitude.empty THEN Null
                                   ELSE Sent(gaForm.longitude.n),
                     local_radius_km |-> gaForm.local_radius_km.n,
                     geo_samples |-> gaForm.geo_samples.n]

InFlight(c) == stPc[c] = "inflight"

\* C21: isLoading is true whenever at least one store call is in flight,
\* overlapping calls included, and false when none is.
C21_LoadingIffInFlight == isLoading = (\E c \in StoreCalls : InFlight(c))

StartOps == {"startAnalysis", "startGeoAnalysis"}

\* C26: a startAnalysis or startGeoAnalysis call that fails changes neither
\* currentAnalysis nor analysisHistory, at its start or at its failure, and
\* its failure sets error to the server's detail or to the default message
\* as the error is thrown to the caller.
C26_FailedStartChangesNothing ==
  [][\A c \in StoreCalls :
       /\ (stPc[c] = "idle" /\ stPc'[c] = "inflight" /\ stOp'[c] \in StartOps)
            => /\ currentAnalysis' = currentAnalysis
               /\ analysisHistory' = analysisHistory
       /\ (stPc[c] = "inflight" /\ stPc'[c] = "thrown" /\ stOp[c] \in StartOps)
            => /\ currentAnalysis' = currentAnalysis
               /\ analysisHistory' = analysisHistory
               /\ error' \in {"Rate limit exceeded", DefaultMessage(stOp[c])}]_stVars

\* a start call failed without a detail after an earlier analysis succeeded
C26_Witness ==
  \E c \in StoreCalls :
    /\ stPc[c] = "thrown"
    /\ stOp[c] \in StartOps
    /\ error = DefaultMessage(stOp[c])
    /\ currentAnalysis # "null"
    /\ analysisHistory # << >>

\* C22: whenever no fetchReportsByUrl call is in flight, groupReports holds
\* reports of the expanded group, and is empty when no group is expanded.
C22_ReportsOfExpandedGroup ==
  grFetches = {} =>
    IF expandedGroup = "null" THEN groupReports = NoReports
    ELSE groupReports.url = expandedGroup

\* C23: the progress timer started by a submit is stopped when the store
\* action settles, on failure as on success, and after a failed analysis
\* progress stays at 0 until the next submit.
C23_TimerStoppedWhenSettled ==
  /\ prCall \in {"succeeded", "failed"} => prTimers = 0
  /\ prCall = "failed" => progress = 0

GroupsShown == paginatedCount(mrReports, selectedType, currentPage)

\* C24: currentPage is between 1 and max(1, totalPages), so the page shown
\* is non-empty whenever a URL group matches the filters.
C24_PageInRange ==
  /\ currentPage >= 1
  /\ currentPage <= Max2(1, totalPages(mrReports, selectedType))
  /\ filteredUrlGroups(mrReports, selectedType) # {} => GroupsShown > 0

\* C25: a deleteReport call for an id starts only from the open dialog with
\* that id selected; closing the dialog starts no call and removes no report;
\* a failed call leaves the dialog, its selection and the store's list as
\* they are.
C25_DeleteOnlyWhenConfirmed ==
  [][/\ \A id \in mrDeleting' \ mrDeleting : showDeleteModal /\ reportToDelete = {id}
     /\ (showDeleteModal /\ ~showDeleteModal')
          => /\ mrDeleting' \subseteq mrDeleting
             /\ mrDeleting' = mrDeleting => mrReports' = mrReports
     /\ (mrDeleting' # mrDeleting /\ mrDeleting' \subseteq mrDeleting
           /\ mrLastDelete' = "failed")
          => /\ showDeleteModal' = showDeleteModal
             /\ reportToDelete' = reportToDelete
             /\ mrReports' = mrReports]_mrVars

\* a confirmed deletion has failed: the dialog is open on the report, which
\* is still in the list
C25_Witness ==
  /\ mrLastDelete = "failed"
  /\ mrDeleting = {}
  /\ showDeleteModal
  /\ reportToDelete # {}
  /\ reportToDelete \subseteq mrReports

(* ---------------------------------------------------------------------- *)
(* Specifications                                                          *)
(* ---------------------------------------------------------------------- *)

allVars == << vars, clsVars, llmVars, mcVars, gmVars, smVars, azVars, gaVars, stVars, grVars, prVars, mrVars >>

PerfInit == Init /\ ClsParked /\ LlmParked /\ McParked /\ GmParked /\ SmParked /\ AzParked /\ GaParked /\ StParked /\ GrParked /\ PrParked /\ MrParked

Spec == PerfInit /\ [][Next]_allVars

\* the event loop runs every call that can take a step, and every awaited I/O
\* either answers or expires at its timeout
Fairness == \A c \in Calls : WF_allVars(CallStep(c))

SpecFair == Spec /\ Fairness

ClassifyInit == ClsInit /\ Init /\ LlmParked /\ McParked /\ GmParked /\ SmParked /\ AzParked /\ GaParked /\ StParked /\ GrParked /\ PrParked /\ MrParked

SpecClassify == ClassifyInit /\ [][ClsNext]_allVars

LLMInit == LlmInit /\ Init /\ ClsParked /\ McParked /\ GmParked /\ SmParked /\ AzParked /\ GaParked /\ StParked /\ GrParked /\ PrParked /\ MrParked

SpecLLM == LLMInit /\ [][LlmNext]_allVars

ColourInit == McInit /\ Init /\ ClsParked /\ LlmParked /\ GmParked /\ SmParked /\ AzParked /\ GaParked /\ StParked /\ GrParked /\ PrParked /\ MrParked

SpecColour == ColourInit /\ [][McNext]_allVars

GeoMapInit == GmInit /\ Init /\ ClsParked /\ LlmParked /\ McParked /\ SmParked /\ AzParked /\ GaParked /\ StParked /\ GrParked /\ PrParked /\ MrParked

SpecGeoMap == GeoMapInit /\ [][GmNext]_allVars

StaticMapInit == SmInit /\ Init /\ ClsParked /\ LlmParked /\ McParked /\ GmParked /\ AzParked /\ GaParked /\ StParked /\ GrParked /\ PrParked /\ MrParked

SpecStaticMap == StaticMapInit /\ [][SmNext]_allVars

AnalyzeInit == AzInit /\ Init /\ ClsParked /\ LlmParked /\ McParked /\ GmParked /\ SmParked /\ GaParked /\ StParked /\ GrParked /\ PrParked /\ MrParked

SpecAnalyze == AnalyzeInit /\ [][AzNext]_allVars

GeoAnalysisInit == GaInit /\ Init /\ ClsParked /\ LlmParked /\ McParked /\ GmParked /\ SmParked /\ AzParked /\ StParked /\ GrParked /\ PrParked /\ MrParked

SpecGeoAnalysis == GeoAnalysisInit /\ [][GaNext]_allVars

StoreInit == StInit /\ Init /\ ClsParked /\ LlmParked /\ McParked /\ GmParked /\ SmParked /\ AzParked /\ GaParked /\ GrParked /\ PrParked /\ MrParked

SpecStore == StoreInit /\ [][StNext]_allVars

GroupedInit == GrInit /\ Init /\ ClsParked /\ LlmParked /\ McParked /\ GmParked /\ SmParked /\ AzParked /\ GaParked /\ StParked /\ PrParked /\ MrParked

SpecGrouped == GroupedInit /\ [][GrNext]_allVars

ProgressInit == PrInit /\ Init /\ ClsParked /\ LlmParked /\ McParked /\ GmParked /\ SmParked /\ AzParked /\ GaParked /\ StParked /\ GrParked /\ MrParked

SpecProgress == ProgressInit /\ [][PrNext]_allVars

MyReportsInit == MrInit /\ Init /\ ClsParked /\ LlmParked /\ McParked /\ GmParked /\ SmParked /\ AzParked /\ GaParked /\ StParked /\ GrParked /\ PrParked

SpecMyReports == MyReportsInit /\ [][MrNext]_allVars

====
